---- MODULE Spec2Model ----
(***************************************************************************)
(* Voice-session engine of the voice todo list: the useSpeechRecognition   *)
(* hook (session state machine, retry on silence, hard timeout, adaptive   *)
(* confidence threshold, analytics), the recognizer it drives, the command *)
(* interpreter (parseVoiceCommand), the task list (useTodos) and the       *)
(* effect of App that hands a transcript to them.                          *)
(*                                                                         *)
(* A handler runs to its end, then React renders.  The passive effects of  *)
(* a render run later, in a step of their own, unless a handler changes    *)
(* the state first: then they run before the render that follows it.       *)
(*                                                                         *)
(* Confidences, averages and thresholds are exact rationals, written as    *)
(* integers in units of 1/One.  One is 10 * lcm(1..10), so that the mean   *)
(* of up to ten confidences taken on the 0.1 grid is an integer.           *)
(***************************************************************************)
EXTENDS Integers, Sequences, FiniteSets, TLC

\* ------------------------------------------------------------------ bounds
MaxStarts == 2          \* calls of startListening explored
MaxAttempts == 3        \* outcomes recorded in the analytics explored
MaxErrorStarts == 1     \* the same, where one session is explored
MaxErrors == 2
MaxAlternatives == 3    \* alternatives in one result (recognition.maxAlternatives)
MaxOutcomes == 4        \* outcomes recorded where the analytics are explored alone
MaxNumber == 12         \* task numbers spoken

\* --------------------------------------------------------------- constants
Tenth == 2 * 1260                 \* 0.1
One == 10 * Tenth                 \* 1.0
InitialThreshold == 5 * Tenth     \* useState(0.5)
HistoryCapacity == 10             \* confidenceHistoryRef keeps the last 10
MaxRetries == 2                   \* retryCountRef.current < 2

Max(a, b) == IF a >= b THEN a ELSE b
Min(a, b) == IF a <= b THEN a ELSE b

RECURSIVE SumSeq(_)
SumSeq(q) == IF q = <<>> THEN 0 ELSE Head(q) + SumSeq(Tail(q))

\* ------------------------------------------------------------------ strings
\* A string is the sequence of its characters.
UpperCase ==
    <<"A", "B", "C", "D", "E", "F", "G", "H", "I", "J", "K", "L", "M", "N", "O", "P",
      "Q", "R", "S", "T", "U", "V", "W", "X", "Y", "Z">>
LowerCase ==
    <<"a", "b", "c", "d", "e", "f", "g", "h", "i", "j", "k", "l", "m", "n", "o", "p",
      "q", "r", "s", "t", "u", "v", "w", "x", "y", "z">>
Digits ==
    <<"0", "1", "2", "3", "4", "5", "6", "7", "8", "9">>

\* \w of the regular expressions
WordChars ==
    {LowerCase[i] : i \in 1..26} \cup {UpperCase[i] : i \in 1..26}
        \cup {Digits[i] : i \in 1..10} \cup {"_"}

toLowerCase(text) ==
    [i \in 1..Len(text) |->
        IF \E k \in 1..26 : UpperCase[k] = text[i]
        THEN LowerCase[CHOOSE k \in 1..26 : UpperCase[k] = text[i]]
        ELSE text[i]]

\* String.prototype.includes
Includes(text, part) ==
    \E i \in 1..(Len(text) + 1) :
        /\ i + Len(part) - 1 <= Len(text)
        /\ SubSeq(text, i, i + Len(part) - 1) = part

StartsWith(text, prefix) ==
    Len(text) >= Len(prefix) /\ SubSeq(text, 1, Len(prefix)) = prefix

EndsWith(text, suffix) ==
    /\ Len(text) >= Len(suffix)
    /\ SubSeq(text, Len(text) - Len(suffix) + 1, Len(text)) = suffix

\* text.slice(n)
Slice(text, n) == SubSeq(text, n + 1, Len(text))

\* String.prototype.trim, the space being the only white space of the texts
RECURSIVE trim(_)
trim(text) ==
    IF text = <<>> THEN text
    ELSE IF Head(text) = " " THEN trim(Tail(text))
    ELSE IF text[Len(text)] = " " THEN trim(SubSeq(text, 1, Len(text) - 1))
    ELSE text

EmptyText == <<>>
TextAddMilk == <<"A", "d", "d", " ", "m", "i", "l", "k">>
TextClearAll == <<"c", "l", "e", "a", "r", " ", "a", "l", "l">>
TextHm == <<"h", "m">>

keywords ==
    { <<"a", "d", "d">>,
      <<"c", "r", "e", "a", "t", "e">>,
      <<"n", "e", "w">>,
      <<"t", "o", "d", "o">>,
      <<"c", "o", "m", "p", "l", "e", "t", "e">>,
      <<"d", "o", "n", "e">>,
      <<"d", "e", "l", "e", "t", "e">>,
      <<"r", "e", "m", "o", "v", "e">>,
      <<"c", "l", "e", "a", "r">> }

hasKeywords(text) == \E keyword \in keywords : Includes(toLowerCase(text), keyword)

\* ---------------------------------------------------- the command interpreter
\* An absent (undefined) text or category; an absent index is <<>> and a
\* present one <<n>>.
Absent == <<"undefined">>

Command(action, text, priority, category, index) ==
    [action |-> action, text |-> text, priority |-> priority,
     category |-> category, index |-> index]

NullCommand == Command("null", Absent, "undefined", Absent, <<>>)

IsDigit(c) == \E k \in 1..10 : Digits[k] = c
DigitValue(c) == (CHOOSE k \in 1..10 : Digits[k] = c) - 1

RECURSIVE TrimStart(_)
TrimStart(text) ==
    IF text # <<>> /\ Head(text) = " " THEN TrimStart(Tail(text)) ELSE text

\* The value of the longest prefix of decimal digits of text, after acc.
RECURSIVE DecimalPrefix(_, _)
DecimalPrefix(text, acc) ==
    IF text # <<>> /\ IsDigit(Head(text))
    THEN DecimalPrefix(Tail(text), 10 * acc + DigitValue(Head(text)))
    ELSE acc

\* parseInt(text): <<>> is NaN.  White space is skipped, a sign is read, then
\* the longest prefix of decimal digits (no explored text starts with 0x).
parseInt(text) ==
    LET body == TrimStart(text)
        signed == body # <<>> /\ Head(body) \in {"+", "-"}
        digits == IF signed THEN Tail(body) ELSE body
    IN  IF digits = <<>> \/ ~IsDigit(Head(digits)) THEN <<>>
        ELSE IF signed /\ Head(body) = "-" THEN <<0 - DecimalPrefix(digits, 0)>>
        ELSE <<DecimalPrefix(digits, 0)>>

\* The regular expression /^<prefix>(.+)<one of suffixes>$/, or
\* /^<prefix>(\d+)$/ when digits is set.
Pattern(prefix, suffixes, digits) ==
    [prefix |-> prefix, suffixes |-> suffixes, digits |-> digits]

Prefixed(prefix) == Pattern(prefix, {<<>>}, FALSE)

Captures(text, pattern) ==
    { SubSeq(text, Len(pattern.prefix) + 1, Len(text) - Len(suffix)) :
        suffix \in { x \in pattern.suffixes :
                        /\ StartsWith(text, pattern.prefix)
                        /\ EndsWith(text, x)
                        /\ Len(text) > Len(pattern.prefix) + Len(x)
                        /\ pattern.digits =>
                            \A i \in (Len(pattern.prefix) + 1)..(Len(text) - Len(x)) :
                                IsDigit(text[i]) } }

Matches(text, pattern) == Captures(text, pattern) # {}

\* match[1] of the first pattern of the list that matches, as <<capture>>;
\* <<>> when none does.
FirstCapture(text, patterns) ==
    LET hits == {i \in 1..Len(patterns) : Matches(text, patterns[i])}
    IN  IF hits = {} THEN <<>>
        ELSE LET first == CHOOSE i \in hits : \A j \in hits : i <= j
             IN  <<CHOOSE c \in Captures(text, patterns[first]) : TRUE>>

addPatterns ==
    << Prefixed(<<"a", "d", "d", " ">>), Prefixed(<<"c", "r", "e", "a", "t", "e", " ">>),
       Prefixed(<<"n", "e", "w", " ">>), Prefixed(<<"t", "o", "d", "o", " ">>),
       Prefixed(<<"r", "e", "m", "i", "n", "d", " ", "m", "e", " ", "t", "o", " ">>),
       Prefixed(<<"i", " ", "n", "e", "e", "d", " ", "t", "o", " ">>),
       Prefixed(<<"h", "e", "y", " ", "a", "d", "d", " ">>),
       Prefixed(<<"o", "k", "a", "y", " ", "a", "d", "d", " ">>),
       Prefixed(<<"p", "l", "e", "a", "s", "e", " ", "a", "d", "d", " ">>),
       Prefixed(<<"c", "a", "n", " ", "y", "o", "u", " ", "a", "d", "d", " ">>) >>

completePatterns ==
    << Prefixed(<<"c", "o", "m", "p", "l", "e", "t", "e", " ">>),
       Prefixed(<<"d", "o", "n", "e", " ">>),
       Prefixed(<<"f", "i", "n", "i", "s", "h", " ">>),
       Pattern(<<"m", "a", "r", "k", " ">>,
               { <<" ", "a", "s", " ", "d", "o", "n", "e">>,
                 <<" ", "a", "s", " ", "c", "o", "m", "p", "l", "e", "t", "e">> },
               FALSE),
       Pattern(<<"c", "o", "m", "p", "l", "e", "t", "e", " ", "t", "a", "s", "k", " ">>,
               {<<>>}, TRUE),
       Pattern(<<"d", "o", "n", "e", " ", "w", "i", "t", "h", " ", "t", "a", "s", "k", " ">>,
               {<<>>}, TRUE) >>

deletePatterns ==
    << Prefixed(<<"d", "e", "l", "e", "t", "e", " ">>),
       Prefixed(<<"r", "e", "m", "o", "v", "e", " ">>),
       Prefixed(<<"c", "a", "n", "c", "e", "l", " ">>),
       Pattern(<<"d", "e", "l", "e", "t", "e", " ", "t", "a", "s", "k", " ">>,
               {<<>>}, TRUE),
       Pattern(<<"r", "e", "m", "o", "v", "e", " ", "t", "a", "s", "k", " ">>,
               {<<>>}, TRUE) >>

IncludesAny(text, parts) == \E part \in parts : Includes(text, part)

extractPriority(text) ==
    IF IncludesAny(text, { <<"u", "r", "g", "e", "n", "t">>,
                      <<"h", "i", "g", "h", " ", "p", "r", "i", "o", "r", "i", "t", "y">>,
                      <<"i", "m", "p", "o", "r", "t", "a", "n", "t">> })
    THEN "high"
    ELSE IF IncludesAny(text, { <<"m", "e", "d", "i", "u", "m", " ", "p", "r", "i", "o", "r", "i", "t", "y">>,
                           <<"n", "o", "r", "m", "a", "l">> })
    THEN "medium"
    ELSE "low"

IsWordAt(text, i) == i >= 1 /\ i <= Len(text) /\ text[i] \in WordChars

\* \b just before position i
BoundaryAt(text, i) == IsWordAt(text, i - 1) # IsWordAt(text, i)

LiteralAt(text, i, part) ==
    i + Len(part) - 1 <= Len(text) /\ SubSeq(text, i, i + Len(part) - 1) = part

\* The length of the longest run of \w from position i on: what \w+ takes, as
\* each of the expressions below goes on with a space or a \b.
RECURSIVE WordRun(_, _)
WordRun(text, i) == IF IsWordAt(text, i) THEN 1 + WordRun(text, i + 1) ELSE 0

\* The phrases of the first replace of cleanTaskText, in the order of the
\* alternation.
priorityPhrases ==
    << <<"u", "r", "g", "e", "n", "t">>,
       <<"h", "i", "g", "h", " ", "p", "r", "i", "o", "r", "i", "t", "y">>,
       <<"i", "m", "p", "o", "r", "t", "a", "n", "t">>,
       <<"m", "e", "d", "i", "u", "m", " ", "p", "r", "i", "o", "r", "i", "t", "y">>,
       <<"n", "o", "r", "m", "a", "l">>,
       <<"l", "o", "w", " ", "p", "r", "i", "o", "r", "i", "t", "y">> >>

\* The expressions <one of heads>(\w+)<tail> of extractCategory; cleanTaskText
\* uses the same three between \b and \b.
categoryPatterns ==
    << [heads |-> << <<"i", "n", " ">>,
                  <<"f", "o", "r", " ">>,
                  <<"u", "n", "d", "e", "r", " ">> >>,
        tail |-> <<" ", "c", "a", "t", "e", "g", "o", "r", "y">>],
       [heads |-> <<<<"c", "a", "t", "e", "g", "o", "r", "i", "z", "e", " ", "a", "s", " ">>>>,
        tail |-> <<>>],
       [heads |-> <<<<"t", "a", "g", " ">>>>, tail |-> <<>>] >>

\* The match of category pattern k at position i: [len, word], len 0 when
\* there is none.
CategoryMatchAt(text, i, k, bounded) ==
    LET pattern == categoryPatterns[k]
        heads == {h \in 1..Len(pattern.heads) : LiteralAt(text, i, pattern.heads[h])}
        head == pattern.heads[CHOOSE h \in heads : \A g \in heads : h <= g]
        from == i + Len(head)
        run == WordRun(text, from)
        len == Len(head) + run + Len(pattern.tail)
    IN  IF /\ heads # {}
           /\ run >= 1
           /\ LiteralAt(text, from + run, pattern.tail)
           /\ bounded => BoundaryAt(text, i) /\ BoundaryAt(text, i + len)
        THEN [len |-> len, word |-> SubSeq(text, from, from + run - 1)]
        ELSE [len |-> 0, word |-> <<>>]

\* The match of /\b(urgent|high priority|...)\b/ at position i: its length.
PriorityMatchAt(text, i) ==
    LET hits == { h \in 1..Len(priorityPhrases) :
                    /\ LiteralAt(text, i, priorityPhrases[h])
                    /\ BoundaryAt(text, i + Len(priorityPhrases[h])) }
    IN  IF BoundaryAt(text, i) /\ hits # {}
        THEN Len(priorityPhrases[CHOOSE h \in hits : \A g \in hits : h <= g])
        ELSE 0

\* The n-th replace of cleanTaskText matched at position i: the length.
ReplaceMatchAt(text, i, n) ==
    IF n = 0 THEN PriorityMatchAt(text, i)
    ELSE CategoryMatchAt(text, i, n, TRUE).len

\* text.replace(<the n-th expression>/gi, ''), from position i on.
RECURSIVE ReplaceAll(_, _, _)
ReplaceAll(text, i, n) ==
    IF i > Len(text) THEN <<>>
    ELSE LET len == ReplaceMatchAt(text, i, n)
         IN  IF len > 0 THEN ReplaceAll(text, i + len, n)
             ELSE <<text[i]>> \o ReplaceAll(text, i + 1, n)

extractCategory(text) ==
    LET found(k) == {i \in 1..Len(text) : CategoryMatchAt(text, i, k, FALSE).len > 0}
        hits == {k \in 1..Len(categoryPatterns) : found(k) # {}}
    IN  IF hits = {} THEN Absent
        ELSE LET k == CHOOSE x \in hits : \A y \in hits : x <= y
                 i == CHOOSE x \in found(k) : \A y \in found(k) : x <= y
             IN  CategoryMatchAt(text, i, k, FALSE).word

cleanTaskText(text) ==
    trim(ReplaceAll(ReplaceAll(ReplaceAll(ReplaceAll(text, 1, 0), 1, 1), 1, 2), 1, 3))

parseMobileCommands(text) ==
    IF IncludesAny(text, { <<"s", "h", "o", "w", " ", "c", "o", "m", "p", "l", "e", "t", "e", "d">>,
                      <<"s", "h", "o", "w", " ", "d", "o", "n", "e">> })
    THEN Command("filter", <<"c", "o", "m", "p", "l", "e", "t", "e", "d">>, "undefined", Absent, <<>>)
    ELSE IF IncludesAny(text, { <<"s", "h", "o", "w", " ", "a", "c", "t", "i", "v", "e">>,
                           <<"s", "h", "o", "w", " ", "p", "e", "n", "d", "i", "n", "g">> })
    THEN Command("filter", <<"a", "c", "t", "i", "v", "e">>, "undefined", Absent, <<>>)
    ELSE IF Includes(text, <<"s", "h", "o", "w", " ", "a", "l", "l">>)
    THEN Command("filter", <<"a", "l", "l">>, "undefined", Absent, <<>>)
    ELSE IF IncludesAny(text, { <<"e", "n", "a", "b", "l", "e", " ", "h", "a", "p", "t", "i", "c", "s">>,
                           <<"t", "u", "r", "n", " ", "o", "n", " ", "v", "i", "b", "r", "a", "t", "i", "o", "n">> })
    THEN Command("setting", <<"h", "a", "p", "t", "i", "c", "s", ":", "o", "n">>, "undefined", Absent, <<>>)
    ELSE IF IncludesAny(text, { <<"d", "i", "s", "a", "b", "l", "e", " ", "h", "a", "p", "t", "i", "c", "s">>,
                           <<"t", "u", "r", "n", " ", "o", "f", "f", " ", "v", "i", "b", "r", "a", "t", "i", "o", "n">> })
    THEN Command("setting", <<"h", "a", "p", "t", "i", "c", "s", ":", "o", "f", "f">>, "undefined", Absent, <<>>)
    ELSE IF IncludesAny(text, { <<"h", "e", "l", "p">>,
                           <<"w", "h", "a", "t", " ", "c", "a", "n", " ", "y", "o", "u", " ", "d", "o">>,
                           <<"c", "o", "m", "m", "a", "n", "d", "s">> })
    THEN Command("help", Absent, "undefined", Absent, <<>>)
    ELSE IF IncludesAny(text, { <<"s", "u", "m", "m", "a", "r", "y">>,
                           <<"s", "t", "a", "t", "u", "s">>,
                           <<"h", "o", "w", " ", "a", "m", " ", "i", " ", "d", "o", "i", "n", "g">> })
    THEN Command("summary", Absent, "undefined", Absent, <<>>)
    ELSE IF IncludesAny(text, { <<"a", "d", "d", " ", "m", "u", "l", "t", "i", "p", "l", "e">>,
                           <<"b", "u", "l", "k", " ", "a", "d", "d">> })
    THEN Command("bulk_add", Absent, "undefined", Absent, <<>>)
    ELSE NullCommand

\* The command of a task reference: an index when parseInt reads a number.
Reference(action, taskRef) ==
    LET parsed == parseInt(taskRef)
    IN  IF parsed = <<>> THEN Command(action, taskRef, "undefined", Absent, <<>>)
        ELSE Command(action, Absent, "undefined", Absent, <<parsed[1] - 1>>)

parseVoiceCommand(transcript) ==
    LET text == trim(toLowerCase(transcript))
        mobileCommands == parseMobileCommands(text)
        add == FirstCapture(text, addPatterns)
        complete == FirstCapture(text, completePatterns)
        delete == FirstCapture(text, deletePatterns)
    IN  IF mobileCommands # NullCommand THEN mobileCommands
        ELSE IF add # <<>>
        THEN Command("add", cleanTaskText(add[1]), extractPriority(add[1]),
                     extractCategory(add[1]), <<>>)
        ELSE IF complete # <<>> THEN Reference("complete", complete[1])
        ELSE IF delete # <<>> THEN Reference("delete", delete[1])
        ELSE IF IncludesAny(text, { <<"c", "l", "e", "a", "r", " ", "a", "l", "l">>,
                                <<"d", "e", "l", "e", "t", "e", " ", "a", "l", "l">>,
                                <<"r", "e", "m", "o", "v", "e", " ", "a", "l", "l">> })
        THEN Command("clear", Absent, "undefined", Absent, <<>>)
        ELSE Command("unknown", transcript, "undefined", Absent, <<>>)

\* ----------------------------------------------------------------- messages
NoError == "null"
MsgTimeout == "Listening timeout. Please try again."
MsgRetrying(n) ==
    IF n = 1 THEN "No speech detected. Retrying... (1/3)"
    ELSE IF n = 2 THEN "No speech detected. Retrying... (2/3)"
    ELSE "No speech detected. Retrying... (n/3)"
MsgRetryFailed == "Failed to retry. Please try again manually."
MsgExhausted ==
    "No speech detected after multiple attempts. Please speak clearly and try again."
MsgAudioCapture ==
    "Microphone access denied. Please allow microphone access and refresh the page."
MsgNotAllowed ==
    "Microphone access not allowed. Please check browser settings and allow microphone access."
MsgNetwork == "Network error. Please check your connection and try again."
MsgService == "Speech recognition service not available. Please try again later."
MsgOther == "Speech recognition error: <errorType>. Please try again."
MsgStartFailed == "Failed to start speech recognition. Please try again."

\* The error kinds the recognizer reports; "aborted" is what abort() produces
\* and stands for every kind the handler has no branch for.
ErrorKinds ==
    {"no-speech", "audio-capture", "not-allowed", "network", "service-not-allowed",
     "aborted"}

VARIABLES
    isListening,                 \* useState(false)
    transcript,                  \* useState('')
    confidence,                  \* useState(0)
    error,                       \* useState(null)
    dynamicConfidenceThreshold,  \* useState(0.5)
    analytics,                   \* useState({totalAttempts: 0, ...})
    retryCount,                  \* retryCountRef.current
    confidenceHistory,           \* confidenceHistoryRef.current
    timeoutRef,                  \* timeoutRef.current: "null", "armed" (a pending
                                 \* timer) or "spent" (a fired or cleared one)
    recognition,                 \* state of the recognizer in recognitionRef.current
    detached,                    \* recognizers replaced by the setup effect that
                                 \* still owe events: [aborting, closing]
    retryTimers,                 \* pending 1 s retry timers (their ids are dropped)
    effectListening,             \* isListening as of the last run of the setup effect
    todos,                       \* useTodos: useState([]), newest first
    nextId,                      \* the ids nanoid() has handed out so far
    spoken,                      \* the last message given to speak()
    microphone,                  \* getUserMedia of detectVoiceActivity: whether the
                                 \* browser has it, the calls not yet settled and
                                 \* the streams open
    voiceActivity,               \* useVoiceActivity: the getUserMedia calls not yet
                                 \* settled, whether the refs hold a stream and its
                                 \* audio context, the streams the refs have lost,
                                 \* the sampling loops alive, whether animationRef
                                 \* names a pending frame, and the sample published
                                 \* (0 the zero sample, 1 and 2 successive others)
    budget,                      \* the starts and the outcomes left to explore
    session,                     \* history of the session the last start() opened
    handed,                      \* history: the last transcript given to the interpreter
    input                        \* the value drawn, or the list of values fed so
                                 \* far, where one function is explored on its own;
                                 \* no handler reads it

progVars ==
    <<isListening, transcript, confidence, error, dynamicConfidenceThreshold, analytics,
      retryCount, confidenceHistory, timeoutRef, recognition, detached,
      retryTimers, effectListening, todos, nextId, spoken, microphone,
      voiceActivity>>

vars == <<progVars, budget, session, handed, input>>

\* The program state as one record, so that a handler body, the effects it
\* forces and the render that follows compose as functions.
Program ==
    [ isListening |-> isListening, transcript |-> transcript, confidence |-> confidence,
      error |-> error, dynamicConfidenceThreshold |-> dynamicConfidenceThreshold,
      analytics |-> analytics, retryCount |-> retryCount,
      confidenceHistory |-> confidenceHistory, timeoutRef |-> timeoutRef,
      recognition |-> recognition, detached |-> detached,
      retryTimers |-> retryTimers,
      effectListening |-> effectListening, todos |-> todos, nextId |-> nextId,
      spoken |-> spoken, microphone |-> microphone,
      voiceActivity |-> voiceActivity ]

Commit(s) ==
    /\ isListening' = s.isListening
    /\ transcript' = s.transcript
    /\ confidence' = s.confidence
    /\ error' = s.error
    /\ dynamicConfidenceThreshold' = s.dynamicConfidenceThreshold
    /\ analytics' = s.analytics
    /\ retryCount' = s.retryCount
    /\ confidenceHistory' = s.confidenceHistory
    /\ timeoutRef' = s.timeoutRef
    /\ recognition' = s.recognition
    /\ detached' = s.detached
    /\ retryTimers' = s.retryTimers
    /\ effectListening' = s.effectListening
    /\ todos' = s.todos
    /\ nextId' = s.nextId
    /\ spoken' = s.spoken
    /\ microphone' = s.microphone
    /\ voiceActivity' = s.voiceActivity

\* ---------------------------------------------------------------- analytics
InitialAnalytics ==
    [ totalAttempts |-> 0, successfulRecognitions |-> 0, averageConfidence |-> 0,
      errorRate |-> [num |-> 0, den |-> 1], lastErrorType |-> "undefined" ]

\* errorRate is the rational num / den (a percentage).
RateBelow(rate, percent) == rate.num < percent * rate.den
RateAbove(rate, percent) == rate.num > percent * rate.den

\* The same without the clamp: what the range of the threshold is tested against.
Unclamped(threshold) == threshold

\* Math.max(0.1, Math.min(1.0, threshold))
ClampThreshold(threshold) == Max(Tenth, Min(One, threshold))

\* An adjustment that looks at the average only: what the use of the error
\* rate is tested against.
AdaptedByAverage(newAverageConfidence, prevErrorRate, current) ==
    IF newAverageConfidence > 8 * Tenth
    THEN Max(3 * Tenth, newAverageConfidence - 2 * Tenth)
    ELSE IF newAverageConfidence < 6 * Tenth
    THEN Min(7 * Tenth, newAverageConfidence + Tenth)
    ELSE current

\* The auto-adjustment inside updateAnalytics: the value the threshold has
\* after a success with the new average and the previous error rate.
AdaptedThreshold(newAverageConfidence, prevErrorRate, current) ==
    IF newAverageConfidence > 8 * Tenth /\ RateBelow(prevErrorRate, 10)
    THEN Max(3 * Tenth, newAverageConfidence - 2 * Tenth)
    ELSE IF newAverageConfidence < 6 * Tenth \/ RateAbove(prevErrorRate, 20)
    THEN Min(7 * Tenth, newAverageConfidence + Tenth)
    ELSE current

\* Whether that auto-adjustment assigns the threshold at all.
Adapts(newAverageConfidence, prevErrorRate) ==
    \/ newAverageConfidence > 8 * Tenth /\ RateBelow(prevErrorRate, 10)
    \/ newAverageConfidence < 6 * Tenth
    \/ RateAbove(prevErrorRate, 20)

\* A history that is never shifted: what the window is tested against.
PushUnbounded(history, confidenceScore) == Append(history, confidenceScore)

PushConfidence(history, confidenceScore) ==
    LET pushed == Append(history, confidenceScore)
    IN  IF Len(pushed) > HistoryCapacity THEN Tail(pushed) ELSE pushed

\* updateAnalytics(success, confidenceScore, errorType); hasScore is
\* confidenceScore !== undefined.
updateAnalytics(s, success, hasScore, confidenceScore, errorType) ==
    LET prev == s.analytics
        newTotalAttempts == prev.totalAttempts + 1
        newSuccessfulRecognitions ==
            IF success THEN prev.successfulRecognitions + 1
            ELSE prev.successfulRecognitions
        newErrorRate ==
            [ num |-> (newTotalAttempts - newSuccessfulRecognitions) * 100,
              den |-> newTotalAttempts ]
        scored == success /\ hasScore
        history ==
            IF scored THEN PushConfidence(s.confidenceHistory, confidenceScore)
            ELSE s.confidenceHistory
        newAverageConfidence ==
            IF scored THEN SumSeq(history) \div Len(history)
            ELSE prev.averageConfidence
    IN  [ s EXCEPT
            !.confidenceHistory = history,
            !.dynamicConfidenceThreshold =
                IF scored
                THEN AdaptedThreshold(newAverageConfidence, prev.errorRate, @)
                ELSE @,
            !.analytics =
                [ totalAttempts |-> newTotalAttempts,
                  successfulRecognitions |-> newSuccessfulRecognitions,
                  averageConfidence |-> newAverageConfidence,
                  errorRate |-> newErrorRate,
                  lastErrorType |-> errorType ] ]

adjustConfidenceThreshold(s, threshold) ==
    [s EXCEPT !.dynamicConfidenceThreshold = ClampThreshold(threshold)]

\* ------------------------------------------------------------ the recognizer
\* A SpeechRecognition object is "idle" (never started, or ended), "starting"
\* (start() called, onstart not yet delivered), "active", "stopping" (stop()
\* called: it may still deliver what it has heard), "aborting" (abort()
\* called: it delivers the error "aborted" or only the end) or "closing" (an
\* error or a final result was delivered: only the end event is owed).

\* recognitionRef.current.start(): throws unless the recognizer is idle.
CanStart(s) == s.recognition = "idle"

\* recognitionRef.current.stop(): a recognizer that captures audio returns what
\* it has heard ("stopping"), one that has not begun only ends ("closing").
StopRecognition(s) ==
    [ s EXCEPT
        !.recognition = CASE @ = "active" -> "stopping"
                          [] @ = "starting" -> "closing"
                          [] OTHER -> @ ]

\* clearTimeout(timeoutRef.current); timeoutRef.current = null
ClearTimeoutRef(s) == [s EXCEPT !.timeoutRef = "null"]

\* --------------------------------------------------------------- the handlers
Undefined == 0 - 1

\* alternative.confidence || 0
ConfidenceOrZero(c) == IF c = Undefined THEN 0 ELSE c

Alternative(text, c) == [transcript |-> text, confidence |-> c]

\* A loop that keeps the highest confidence only: what the selection is tested
\* against.
RECURSIVE SelectHighest(_, _, _)
SelectHighest(result, i, best) ==
    IF i > Len(result) THEN best
    ELSE LET alternative == result[i]
             c == ConfidenceOrZero(alternative.confidence)
         IN  SelectHighest(result, i + 1,
                 IF c > best.confidence THEN Alternative(alternative.transcript, c)
                 ELSE best)

\* The loop of onresult over the alternatives of one result, from index i on.
RECURSIVE SelectBest(_, _, _)
SelectBest(result, i, best) ==
    IF i > Len(result) THEN best
    ELSE LET alternative == result[i]
             c == ConfidenceOrZero(alternative.confidence)
         IN  SelectBest(result, i + 1,
                 IF \/ c > best.confidence
                    \/ /\ c * 10 >= best.confidence * 9
                       /\ hasKeywords(alternative.transcript)
                 THEN Alternative(alternative.transcript, c)
                 ELSE best)

BestAlternative(result) ==
    SelectBest(result, 1,
        Alternative(result[1].transcript, ConfidenceOrZero(result[1].confidence)))

\* detectVoiceActivity(): navigator.mediaDevices.getUserMedia({ audio: true })
detectVoiceActivity(s) ==
    IF ~s.microphone.supported THEN s
    ELSE [s EXCEPT !.microphone.requested = @ + 1]

\* The promise of getUserMedia resolves: the stream feeds an analyser; nothing
\* keeps it to stop its tracks later.
streamGranted(s) ==
    [s EXCEPT !.microphone.requested = @ - 1, !.microphone.open = @ + 1]

\* The promise rejects: console.warn.
streamDenied(s) == [s EXCEPT !.microphone.requested = @ - 1]

onstart(s) ==
    [ detectVoiceActivity(s) EXCEPT
        !.isListening = TRUE,
        !.error = NoError,
        !.retryCount = 0,
        \* every path to a second onstart clears the timer timeoutRef holds
        !.timeoutRef = "armed" ]

onresult(s, result, isFinal) ==
    LET best == BestAlternative(result)
        shown == [s EXCEPT !.transcript = best.transcript, !.confidence = best.confidence]
    IN  IF isFinal THEN updateAnalytics(shown, TRUE, TRUE, best.confidence, "undefined")
        ELSE shown

onend(s) == ClearTimeoutRef([s EXCEPT !.isListening = FALSE])

ErrorMessage(errorType) ==
    CASE errorType = "audio-capture" -> MsgAudioCapture
      [] errorType = "not-allowed" -> MsgNotAllowed
      [] errorType = "network" -> MsgNetwork
      [] errorType = "service-not-allowed" -> MsgService
      [] OTHER -> MsgOther

\* A handler that retries after every kind of error: what the handling of
\* the errors other than no-speech is tested against.
onerrorRetrying(s, errorType) ==
    LET recorded ==
            updateAnalytics(ClearTimeoutRef([s EXCEPT !.isListening = FALSE]),
                            FALSE, FALSE, 0, errorType)
    IN  IF recorded.retryCount < MaxRetries
        THEN [ recorded EXCEPT
                 !.retryCount = @ + 1,
                 !.error = MsgRetrying(recorded.retryCount + 1),
                 !.retryTimers = @ + 1 ]
        ELSE [recorded EXCEPT !.error = MsgExhausted]

onerror(s, errorType) ==
    LET recorded ==
            updateAnalytics(ClearTimeoutRef([s EXCEPT !.isListening = FALSE]),
                            FALSE, FALSE, 0, errorType)
    IN  IF errorType = "no-speech"
        THEN IF recorded.retryCount < MaxRetries
             THEN [ recorded EXCEPT
                      !.retryCount = @ + 1,
                      !.error = MsgRetrying(recorded.retryCount + 1),
                      !.retryTimers = @ + 1 ]
             ELSE [recorded EXCEPT !.error = MsgExhausted]
        ELSE [recorded EXCEPT !.error = ErrorMessage(errorType)]

\* The callback of the 10 s timer set by onstart.
timeoutCallback(s) == [StopRecognition(s) EXCEPT !.error = MsgTimeout]

\* The callback of the 1 s timer set by onerror.
retryCallback(s) ==
    IF CanStart(s) THEN [s EXCEPT !.recognition = "starting"]
    ELSE [s EXCEPT !.error = MsgRetryFailed]

startListening(s) ==
    IF s.isListening THEN s
    ELSE LET reset ==
                 [ s EXCEPT
                     !.error = NoError, !.transcript = EmptyText,
                     !.confidence = 0, !.retryCount = 0 ]
         IN  IF CanStart(reset) THEN [reset EXCEPT !.recognition = "starting"]
             ELSE [ updateAnalytics(reset, FALSE, FALSE, 0, "start-error")
                      EXCEPT !.error = MsgStartFailed ]

\* stopListening as it would be if stop() threw on a recognizer that is not
\* listening: what the no-op of stopping an idle session is tested against.
stopListeningFailing(s) ==
    IF s.isListening THEN ClearTimeoutRef(StopRecognition(s))
    ELSE [ClearTimeoutRef(s) EXCEPT !.error = "Failed to stop speech recognition"]

stopListening(s) == ClearTimeoutRef(StopRecognition(s))

resetTranscript(s) ==
    [s EXCEPT !.transcript = EmptyText, !.confidence = 0, !.error = NoError]

\* ------------------------------------------------------------------ useTodos
\* The messages given to speak(), without the task text they end with.
SaidNothing == "none"
SaidAdded == "Added task: <text>"
SaidCompleted == "Completed task: <text>"
SaidDeleted == "Deleted task: <text>"
SaidNotFound == "Task not found"
SaidCleared == "All tasks cleared"
SaidUnknown ==
    "Sorry, I did not understand that command. Try saying add, complete, delete, or clear all."

addTodo(s, text, priority, category) ==
    LET newTodo ==
            [ id |-> s.nextId + 1, text |-> trim(text), completed |-> FALSE,
              priority |-> IF priority = "undefined" THEN "low" ELSE priority,
              category |-> category ]
    IN  [ s EXCEPT
            !.nextId = @ + 1, !.todos = <<newTodo>> \o @, !.spoken = SaidAdded ]

\* toggleTodo in the place of completeTodo: what the completion is tested
\* against.
completeTodoToggling(s, id) ==
    [ s EXCEPT
        !.todos = [i \in 1..Len(@) |->
                      IF @[i].id = id THEN [@[i] EXCEPT !.completed = ~@] ELSE @[i]],
        !.spoken = SaidCompleted ]

completeTodo(s, id) ==
    [ s EXCEPT
        !.todos = [i \in 1..Len(@) |->
                      IF @[i].id = id THEN [@[i] EXCEPT !.completed = TRUE] ELSE @[i]],
        !.spoken = IF \E i \in 1..Len(s.todos) : s.todos[i].id = id
                   THEN SaidCompleted ELSE @ ]

deleteTodo(s, id) ==
    [ s EXCEPT
        !.todos = SelectSeq(@, LAMBDA todo : todo.id # id),
        !.spoken = IF \E i \in 1..Len(s.todos) : s.todos[i].id = id
                   THEN SaidDeleted ELSE @ ]

\* A clear that keeps the completed tasks: what clearing is tested against.
clearActiveTodos(s) ==
    [ s EXCEPT !.todos = SelectSeq(@, LAMBDA todo : todo.completed),
               !.spoken = SaidCleared ]

clearAllTodos(s) == [s EXCEPT !.todos = <<>>, !.spoken = SaidCleared]

\* A search that compares the text as it is written: what the resolution by
\* text is tested against.
findTodoByTextExact(s, text) ==
    LET hits == { i \in 1..Len(s.todos) : Includes(s.todos[i].text, text) }
    IN  IF hits = {} THEN <<>>
        ELSE <<s.todos[CHOOSE i \in hits : \A j \in hits : i <= j]>>

\* todos.find(...): <<todo>>, or <<>> for undefined
findTodoByText(s, text) ==
    LET hits == { i \in 1..Len(s.todos) :
                    Includes(toLowerCase(s.todos[i].text), toLowerCase(text)) }
    IN  IF hits = {} THEN <<>>
        ELSE <<s.todos[CHOOSE i \in hits : \A j \in hits : i <= j]>>

\* A lookup that counts the completed tasks too: what the resolution by index
\* is tested against.
findTodoByIndexOfAll(s, index) ==
    IF index >= 0 /\ index < Len(s.todos) THEN <<s.todos[index + 1]>> ELSE <<>>

\* activeTodos[index], the index counted from 0
findTodoByIndex(s, index) ==
    LET activeTodos == SelectSeq(s.todos, LAMBDA todo : ~todo.completed)
    IN  IF index >= 0 /\ index < Len(activeTodos) THEN <<activeTodos[index + 1]>>
        ELSE <<>>

\* The cases 'complete' and 'delete': act(s, id) is completeTodo or deleteTodo.
Resolve(s, command) ==
    IF command.index # <<>> THEN findTodoByIndex(s, command.index[1])
    ELSE findTodoByText(s, command.text)

executeVoiceCommand(s, command) ==
    CASE command.action = "add" ->
            IF command.text \notin {Absent, EmptyText}
            THEN addTodo(s, command.text, command.priority, command.category)
            ELSE s
      [] command.action \in {"complete", "delete"} ->
            IF command.index = <<>> /\ command.text \in {Absent, EmptyText} THEN s
            ELSE IF Resolve(s, command) = <<>> THEN [s EXCEPT !.spoken = SaidNotFound]
            ELSE IF command.action = "complete"
            THEN completeTodo(s, Resolve(s, command)[1].id)
            ELSE deleteTodo(s, Resolve(s, command)[1].id)
      [] command.action = "clear" -> clearAllTodos(s)
      [] command.action = "unknown" -> [s EXCEPT !.spoken = SaidUnknown]
      [] OTHER -> s

\* ----------------------------------------------------------- useVoiceActivity
\* await navigator.mediaDevices.getUserMedia(...): without mediaDevices the
\* call throws and the catch logs it.
initializeAudioAnalysis(s) ==
    IF ~s.microphone.supported THEN s
    ELSE [s EXCEPT !.voiceActivity.calls = @ + 1]

\* setVoiceActivity of analyze: a sample that differs from the one before.
NextSample(sample) == IF sample = 1 THEN 2 ELSE 1

\* What follows the await when the stream is granted: the refs are set,
\* whatever they held, and startAnalysis runs analyze once; isListening is
\* true in the closure of analyze, so that it requests the next frame.
activityGranted(s) ==
    [ s EXCEPT
        !.voiceActivity =
            [ calls |-> @.calls - 1, held |-> TRUE,
              lost |-> IF @.held THEN @.lost + 1 ELSE @.lost,
              loops |-> @.loops + 1, tracked |-> TRUE,
              sample |-> NextSample(@.sample) ] ]

\* What follows the await when getUserMedia rejects: the catch.
activityDenied(s) == [s EXCEPT !.voiceActivity.calls = @ - 1]

\* A frame of a sampling loop: analyze.  ofTracked tells whether it is the
\* frame animationRef names.  With audioContextRef.current null the read of
\* its sampleRate throws and the loop ends; else the sample is published
\* and the next frame requested.
analyze(s, ofTracked) ==
    IF ~s.voiceActivity.held
    THEN [ s EXCEPT !.voiceActivity.loops = @ - 1,
                    !.voiceActivity.tracked = @ /\ ~ofTracked ]
    ELSE [ s EXCEPT !.voiceActivity.sample = NextSample(@),
                    !.voiceActivity.tracked = TRUE ]

\* cleanup: cancels the frame animationRef names, stops the stream and closes
\* the context the refs hold, and publishes the zero sample.
cleanup(s) ==
    [ s EXCEPT
        !.voiceActivity =
            [ calls |-> @.calls, held |-> FALSE, lost |-> @.lost,
              loops |-> IF @.tracked THEN @.loops - 1 ELSE @.loops,
              tracked |-> FALSE, sample |-> 0 ] ]

\* The effect of useVoiceActivity on isListening: the cleanup the run before
\* returned, then initializeAudioAnalysis or cleanup.
ActivityEffect(render, s) ==
    IF render.isListening THEN initializeAudioAnalysis(cleanup(s))
    ELSE cleanup(cleanup(s))

\* ---------------------------------------------------------------- the effects
\* The recognizer-setup effect depends on detectVoiceActivity, which is rebuilt
\* whenever isListening changes.  Its cleanup aborts the recognizer in
\* recognitionRef and clears the timer in timeoutRef without resetting the ref;
\* its body puts a new recognizer in recognitionRef.
SetupEffect(render, s) ==
    [ s EXCEPT
        !.detached =
            IF s.recognition \in {"starting", "active", "stopping"}
            THEN [@ EXCEPT !.aborting = @ + 1]
            ELSE IF s.recognition = "closing" THEN [@ EXCEPT !.closing = @ + 1]
            ELSE @,
        !.recognition = "idle",
        !.timeoutRef = IF @ = "armed" THEN "spent" ELSE @,
        !.effectListening = render.isListening ]

SetupPending(render) == render.isListening # render.effectListening

\* The confidence a transcript must exceed in App's voice-command effect.
AcceptanceLevel == 5 * Tenth

\* The condition of App's voice-command effect.  executeVoiceCommand and
\* resetTranscript are new functions in every render, so the effect runs after
\* every render; it resets the transcript, so the condition holds only as long
\* as the effect of the render that made it true has not run.
CommandReady(render) ==
    /\ render.transcript # EmptyText
    /\ ~render.isListening
    /\ render.confidence > AcceptanceLevel

\* An effect that leaves the transcript in place: what the single execution
\* of a transcript is tested against.
CommandEffectKeeping(render, s) ==
    executeVoiceCommand(s, parseVoiceCommand(render.transcript))

CommandEffect(render, s) ==
    resetTranscript(executeVoiceCommand(s, parseVoiceCommand(render.transcript)))

EffectsPending(render) == SetupPending(render) \/ CommandReady(render)

\* The passive effects of the render `render`, in the order of their hooks,
\* run on the state s the refs, the recognizer and the update queue have by
\* then.
FlushEffects(render, s) ==
    LET activity == IF SetupPending(render) THEN ActivityEffect(render, s) ELSE s
        setup == IF SetupPending(render) THEN SetupEffect(render, activity)
                 ELSE activity
    IN  IF CommandReady(render) THEN CommandEffect(render, setup) ELSE setup

\* What a render shows: the useState values.
Rendered(s) ==
    <<s.isListening, s.transcript, s.confidence, s.error,
      s.dynamicConfidenceThreshold, s.analytics, s.todos, s.voiceActivity.sample>>

\* State s is what a handler left.  When it changed a useState value a new
\* render follows, and the effects of the previous render, if they have not
\* run yet, run before it.
Forces(s) == Rendered(s) # Rendered(Program) /\ EffectsPending(Program)

Settle(s) == IF Forces(s) THEN FlushEffects(Program, s) ELSE s

\* ---------------------------------------------------------------- the history
\* session and handed record what has happened; no handler reads them.
NoSession ==
    [ open |-> FALSE, retries |-> 0, attemptsAtStart |-> 0, terminals |-> 0,
      stopped |-> FALSE, timedOut |-> FALSE ]

\* pending is the kind of the last result delivered since the voice-command
\* effect last ran its body ("none" when there is none), kind the kind of
\* the result whose transcript it was given, and repeated tells that it has
\* run its body with no result delivered since the time before.
NothingHanded ==
    [ text |-> EmptyText, confidence |-> 0, threshold |-> 0, timedOut |-> FALSE,
      pending |-> "none", kind |-> "none", repeated |-> FALSE ]

\* The transcript the voice-command effect of `render` gives to
\* parseVoiceCommand and executeVoiceCommand.
Handover(render) ==
    [ text |-> render.transcript, confidence |-> render.confidence,
      threshold |-> render.dynamicConfidenceThreshold,
      timedOut |-> session.timedOut,
      pending |-> "none", kind |-> handed.pending,
      repeated |-> handed.repeated \/ handed.pending = "none" ]

\* The history after an event that runs no voice command.
Noted(event) ==
    [handed EXCEPT !.pending = IF event \in {"interim", "final"} THEN event ELSE @]

\* The events that end a session: a final result, the timeout and an error
\* that schedules no retry.
Terminal(s, event) ==
    \/ event \in {"final", "timeout"}
    \/ event = "error" /\ s.retryTimers = retryTimers

NoInput == <<>>

\* State s is what the handler of `event` left.
Handled(s, event) ==
    /\ Commit(Settle(s))
    /\ UNCHANGED input
    /\ handed' = IF Forces(s) /\ CommandReady(Program) THEN Handover(Program)
                 ELSE Noted(event)
    /\ budget' =
        [ starts |-> IF event = "start" THEN budget.starts - 1 ELSE budget.starts,
          outcomes |-> budget.outcomes
                         - (s.analytics.totalAttempts - analytics.totalAttempts) ]
    /\ session' =
        IF event = "start" /\ ~isListening /\ CanStart(Program)
        THEN [NoSession EXCEPT !.open = TRUE,
                               !.attemptsAtStart = analytics.totalAttempts]
        ELSE [ session EXCEPT
                 !.retries = IF s.retryTimers > retryTimers THEN @ + 1 ELSE @,
                 !.terminals = IF Terminal(s, event) THEN @ + 1 ELSE @,
                 !.stopped = @ \/ event = "stop",
                 !.timedOut = @ \/ (event = "timeout" /\ isListening) ]

\* ------------------------------------------------------------- the behaviours
\* The results the recognizer delivers: one alternative of low confidence, or
\* two alternatives of which the second names a command.
Results ==
    { <<Alternative(TextAddMilk, 3 * Tenth)>>,
      <<Alternative(TextHm, One), Alternative(TextClearAll, 9 * Tenth)>> }

ThresholdInputs == {9 * Tenth}

\* useVoiceActivity after its first effect, which runs cleanup.
NoActivity ==
    [ calls |-> 0, held |-> FALSE, lost |-> 0, loops |-> 0, tracked |-> FALSE,
      sample |-> 0 ]

\* A browser without navigator.mediaDevices.getUserMedia.
NoMicrophone == [supported |-> FALSE, requested |-> 0, open |-> 0]

\* The state after the first render and its effects.
Mounted ==
    [ isListening |-> FALSE, transcript |-> EmptyText, confidence |-> 0,
      error |-> NoError, dynamicConfidenceThreshold |-> InitialThreshold,
      analytics |-> InitialAnalytics, retryCount |-> 0, confidenceHistory |-> <<>>,
      timeoutRef |-> "null", recognition |-> "idle",
      detached |-> [aborting |-> 0, closing |-> 0], retryTimers |-> 0,
      effectListening |-> FALSE, todos |-> <<>>, nextId |-> 0,
      spoken |-> SaidNothing, microphone |-> NoMicrophone,
      voiceActivity |-> NoActivity ]

Holds(s) ==
    /\ isListening = s.isListening
    /\ transcript = s.transcript
    /\ confidence = s.confidence
    /\ error = s.error
    /\ dynamicConfidenceThreshold = s.dynamicConfidenceThreshold
    /\ analytics = s.analytics
    /\ retryCount = s.retryCount
    /\ confidenceHistory = s.confidenceHistory
    /\ timeoutRef = s.timeoutRef
    /\ recognition = s.recognition
    /\ detached = s.detached
    /\ retryTimers = s.retryTimers
    /\ effectListening = s.effectListening
    /\ todos = s.todos
    /\ nextId = s.nextId
    /\ spoken = s.spoken
    /\ microphone = s.microphone
    /\ voiceActivity = s.voiceActivity

Init ==
    /\ Holds(Mounted)
    /\ budget = [starts |-> MaxStarts, outcomes |-> MaxAttempts]
    /\ session = NoSession
    /\ handed = NothingHanded
    /\ input = NoInput

\* The user presses the microphone button.
StartListening ==
    /\ budget.starts > 0
    /\ Handled(startListening(Program), "start")

StopListening ==
    /\ Handled(stopListening(Program), "stop")

AdjustConfidenceThreshold ==
    /\ \E threshold \in ThresholdInputs :
        Handled(adjustConfidenceThreshold(Program, threshold), "adjust")

OnStart ==
    /\ recognition = "starting"
    /\ Handled(onstart([Program EXCEPT !.recognition = "active"]), "onstart")

OnResult ==
    /\ recognition \in {"active", "stopping"}
    /\ \E result \in Results, isFinal \in BOOLEAN :
        /\ isFinal => budget.outcomes > 0
        /\ Handled(onresult([Program EXCEPT
                                !.recognition = IF isFinal THEN "closing" ELSE @],
                            result, isFinal),
                   IF isFinal THEN "final" ELSE "interim")

\* An error of the recognizer in recognitionRef.
OnError ==
    /\ recognition \in {"starting", "active", "stopping"}
    /\ budget.outcomes > 0
    /\ \E errorType \in ErrorKinds :
        \* silence is detected only once audio is captured
        /\ errorType = "no-speech" => recognition # "starting"
        /\ Handled(onerror([Program EXCEPT !.recognition = "closing"], errorType),
                   "error")

\* The error event of a recognizer the setup effect has aborted.
OnErrorDetached ==
    /\ detached.aborting > 0
    /\ budget.outcomes > 0
    /\ Handled(onerror([Program EXCEPT
                           !.detached = [aborting |-> @.aborting - 1,
                                         closing |-> @.closing + 1]],
                       "aborted"),
               "error")

OnEnd ==
    /\ recognition \in {"active", "stopping", "closing"}
    /\ Handled(onend([Program EXCEPT !.recognition = "idle"]), "end")

\* The end event of a recognizer the setup effect has replaced.
OnEndDetached ==
    /\ \E phase \in {"aborting", "closing"} :
        /\ detached[phase] > 0
        /\ Handled(onend([Program EXCEPT !.detached[phase] = @ - 1]), "end")

\* The 10 s timer held in timeoutRef expires.
Timeout ==
    /\ timeoutRef = "armed"
    /\ Handled(timeoutCallback([Program EXCEPT !.timeoutRef = "spent"]),
               "timeout")

\* The 1 s timer of a no-speech retry expires.
Retry ==
    /\ retryTimers > 0
    /\ Handled(retryCallback([Program EXCEPT !.retryTimers = @ - 1]), "retry")

\* The browser settles a getUserMedia call of detectVoiceActivity.
MicrophoneGranted ==
    /\ microphone.requested > 0
    /\ Handled(streamGranted(Program), "microphone")

MicrophoneDenied ==
    /\ microphone.requested > 0
    /\ Handled(streamDenied(Program), "microphone")

\* React runs the passive effects of the last render.
RunEffects ==
    /\ EffectsPending(Program)
    /\ Commit(FlushEffects(Program, Program))
    /\ handed' = IF CommandReady(Program) THEN Handover(Program) ELSE handed
    /\ UNCHANGED <<budget, session, input>>

Next ==
    \/ StartListening
    \/ StopListening
    \/ AdjustConfidenceThreshold
    \/ OnStart
    \/ OnResult
    \/ OnError
    \/ OnErrorDetached
    \/ OnEnd
    \/ OnEndDetached
    \/ Timeout
    \/ Retry
    \/ RunEffects

Spec == Init /\ [][Next]_vars

\* ------------------------------------------------- one session and its errors
\* The same program, explored for fewer starts and outcomes.
InitErrors ==
    /\ Holds(Mounted)
    /\ budget = [starts |-> MaxErrorStarts, outcomes |-> MaxErrors]
    /\ session = NoSession
    /\ handed = NothingHanded
    /\ input = NoInput

SpecErrors == InitErrors /\ [][Next]_vars

\* ------------------------------------------- a browser with getUserMedia
\* The same program where detectVoiceActivity finds getUserMedia, and the
\* browser settles its calls.
InitMicrophone ==
    /\ Holds([Mounted EXCEPT !.microphone.supported = TRUE])
    /\ budget = [starts |-> MaxErrorStarts, outcomes |-> MaxErrors]
    /\ session = NoSession
    /\ handed = NothingHanded
    /\ input = NoInput

NextMicrophone ==
    \/ Next
    \/ MicrophoneGranted
    \/ MicrophoneDenied

SpecMicrophone == InitMicrophone /\ [][NextMicrophone]_vars

\* The same browser, where the calls of useVoiceActivity are settled and the
\* frames of its sampling loops run.
ActivityGranted ==
    /\ voiceActivity.calls > 0
    /\ Handled(activityGranted(Program), "activity")

ActivityDenied ==
    /\ voiceActivity.calls > 0
    /\ Handled(activityDenied(Program), "activity")

ActivityFrame ==
    /\ voiceActivity.loops > 0
    /\ \E ofTracked \in BOOLEAN :
        /\ ofTracked => voiceActivity.tracked
        /\ ~ofTracked => voiceActivity.loops > (IF voiceActivity.tracked THEN 1 ELSE 0)
        /\ Handled(analyze(Program, ofTracked), "frame")

NextActivity ==
    \/ Next
    \/ ActivityGranted
    \/ ActivityDenied
    \/ ActivityFrame

SpecActivity == InitMicrophone /\ [][NextActivity]_vars

\* ------------------------------------------------- the analytics on their own
\* updateAnalytics and adjustConfidenceThreshold under every sequence of
\* outcomes and adjustments, whatever the session that produces them.
ConfidenceGrid == {0, 4 * Tenth, 7 * Tenth, One}

ThresholdRange == {0 - One, 0, Tenth, 5 * Tenth, One, 2 * One}

\* The state after n final results of confidence c.
RECURSIVE Recorded(_, _, _)
Recorded(s, c, n) ==
    IF n = 0 THEN s
    ELSE Recorded(updateAnalytics(s, TRUE, TRUE, c, "undefined"), c, n - 1)

\* A fresh history, or one that is full, so that the next score shifts it.
\* input is the list of the confidences of the successes recorded so far.
InitAnalytics ==
    /\ \E c \in ConfidenceGrid, n \in {0, HistoryCapacity} :
        /\ Holds(Recorded(Mounted, c, n))
        /\ input = [i \in 1..n |-> c]
    /\ budget = [starts |-> 0, outcomes |-> MaxOutcomes]
    /\ session = NoSession
    /\ handed = NothingHanded

\* onresult records a success with its confidence, onerror a failure.
RecordOutcome ==
    /\ budget.outcomes > 0
    /\ \E success \in BOOLEAN, c \in ConfidenceGrid :
        /\ success \/ c = 0
        /\ Commit(updateAnalytics(Program, success, success, c,
                                  IF success THEN "undefined" ELSE "network"))
        /\ input' = IF success THEN Append(input, c) ELSE input
    /\ budget' = [budget EXCEPT !.outcomes = @ - 1]
    /\ UNCHANGED <<session, handed>>

AdjustThreshold ==
    /\ \E threshold \in ThresholdRange :
        Commit(adjustConfidenceThreshold(Program, threshold))
    /\ UNCHANGED <<budget, session, handed, input>>

NextAnalytics ==
    \/ RecordOutcome
    \/ AdjustThreshold

SpecAnalytics == InitAnalytics /\ [][NextAnalytics]_vars

\* ------------------------------------------------ the selection on its own
\* onresult on every list of up to MaxAlternatives alternatives.
AlternativeTexts == {TextHm, TextAddMilk, TextClearAll}

AlternativeConfidences == {Undefined, 8 * Tenth, 17 * (Tenth \div 2), 9 * Tenth, One}

Alternatives ==
    { Alternative(text, c) : text \in AlternativeTexts, c \in AlternativeConfidences }

AlternativeLists ==
    UNION { [1..n -> Alternatives] : n \in 1..MaxAlternatives }

\* The state of a session that listens: after startListening and onstart.
Listening ==
    onstart([startListening(Mounted) EXCEPT !.recognition = "active"])

InitResults ==
    /\ Holds(Listening)
    /\ budget = [starts |-> 0, outcomes |-> 0]
    /\ session = NoSession
    /\ handed = NothingHanded
    /\ input \in AlternativeLists

\* The recognizer delivers the list drawn as an interim result.
DeliverResult ==
    /\ transcript = EmptyText
    /\ Commit(onresult(Program, input, FALSE))
    /\ handed' = Noted("interim")
    /\ UNCHANGED <<budget, session, input>>

NextResults == DeliverResult

SpecResults == InitResults /\ [][NextResults]_vars

\* ------------------------------------------- the voice commands on their own
\* The state a session leaves in which the recognizer heard `text` as its
\* final result: startListening, onstart, onresult with the effects of the
\* previous render that it forces, and onend of the recognizer those effects
\* replaced.  The voice-command effect of App is then due.
SpokenConfidence == 9 * Tenth

Heard(s, text) ==
    LET started == onstart([startListening(s) EXCEPT !.recognition = "active"])
        shown == onresult([started EXCEPT !.recognition = "closing"],
                          <<Alternative(text, SpokenConfidence)>>, TRUE)
        flushed == FlushEffects(started, shown)
    IN  onend([flushed EXCEPT !.detached.closing = @ - 1])

\* The state after the effects that follow: the command has been interpreted
\* and executed.
Obeyed(s, text) == LET heard == Heard(s, text) IN FlushEffects(heard, heard)

RECURSIVE AfterAll(_, _)
AfterAll(s, texts) ==
    IF texts = <<>> THEN s ELSE AfterAll(Obeyed(s, Head(texts)), Tail(texts))

TextAddBuyMilk == <<"a", "d", "d", " ", "b", "u", "y", " ", "m", "i", "l", "k">>
TextAddCallMom == <<"a", "d", "d", " ", "c", "a", "l", "l", " ", "m", "o", "m">>
TextAddPayRent == <<"a", "d", "d", " ", "p", "a", "y", " ", "r", "e", "n", "t", " ", "h", "i", "g", "h", " ", "p", "r", "i", "o", "r", "i", "t", "y">>
TextAddBuyBread == <<"a", "d", "d", " ", "b", "u", "y", " ", "b", "r", "e", "a", "d">>
TextComplete1 == <<"c", "o", "m", "p", "l", "e", "t", "e", " ", "1">>
TextComplete2 == <<"c", "o", "m", "p", "l", "e", "t", "e", " ", "2">>

\* The commands spoken before the one that is examined.
Histories ==
    { <<>>,
      <<TextAddBuyMilk, TextAddCallMom, TextAddPayRent>>,
      <<TextAddBuyMilk, TextAddCallMom, TextAddPayRent, TextComplete1>>,
      <<TextAddBuyMilk, TextAddCallMom, TextAddPayRent, TextComplete2,
        TextAddBuyBread>> }

Stocked == { AfterAll(Mounted, texts) : texts \in Histories }

\* The decimal numeral of n >= 0.
RECURSIVE Numeral(_)
Numeral(n) ==
    IF n < 10 THEN <<Digits[n + 1]>>
    ELSE Numeral(n \div 10) \o <<Digits[(n % 10) + 1]>>

\* 'complete task n', 'done with task n', 'mark task n as done',
\* 'delete task n' and 'remove task n'
TaskComplete(n) == <<"c", "o", "m", "p", "l", "e", "t", "e", " ", "t", "a", "s", "k", " ">> \o Numeral(n)
TaskDoneWith(n) == <<"d", "o", "n", "e", " ", "w", "i", "t", "h", " ", "t", "a", "s", "k", " ">> \o Numeral(n)
TaskMark(n) == <<"m", "a", "r", "k", " ", "t", "a", "s", "k", " ">> \o Numeral(n) \o <<" ", "a", "s", " ", "d", "o", "n", "e">>
TaskDelete(n) == <<"d", "e", "l", "e", "t", "e", " ", "t", "a", "s", "k", " ">> \o Numeral(n)
TaskRemove(n) == <<"r", "e", "m", "o", "v", "e", " ", "t", "a", "s", "k", " ">> \o Numeral(n)

TaskPhrases ==
    UNION { { TaskComplete(n), TaskDoneWith(n), TaskMark(n), TaskDelete(n),
              TaskRemove(n) } : n \in 1..MaxNumber }

\* 'complete n', 'finish n', 'delete n' and 'cancel n', n = 0 included
NumberPhrases ==
    { verb \o Numeral(n) :
        verb \in { <<"c", "o", "m", "p", "l", "e", "t", "e", " ">>,
      <<"f", "i", "n", "i", "s", "h", " ">>, <<"d", "e", "l", "e", "t", "e", " ">>,
      <<"c", "a", "n", "c", "e", "l", " ">> },
        n \in 0..MaxNumber }

ClearCores ==
    { <<"c", "l", "e", "a", "r", " ", "a", "l", "l">>,
      <<"d", "e", "l", "e", "t", "e", " ", "a", "l", "l">>,
      <<"r", "e", "m", "o", "v", "e", " ", "a", "l", "l">>,
      <<"C", "l", "e", "a", "r", " ", "a", "l", "l">>,
      <<"D", "e", "l", "e", "t", "e", " ", "a", "l", "l">> }

ClearPhrases ==
    { lead \o core \o tail :
        lead \in {<<>>, <<"p", "l", "e", "a", "s", "e", " ">>},
        core \in ClearCores,
        tail \in {<<>>, <<" ", "t", "a", "s", "k", "s">>} }

AddLeads ==
    { <<"a", "d", "d", " ">>, <<"c", "r", "e", "a", "t", "e", " ">>,
      <<"n", "e", "w", " ">>, <<"t", "o", "d", "o", " ">>,
      <<"r", "e", "m", "i", "n", "d", " ", "m", "e", " ", "t", "o", " ">>,
      <<"i", " ", "n", "e", "e", "d", " ", "t", "o", " ">>,
      <<"h", "e", "y", " ", "a", "d", "d", " ">>,
      <<"o", "k", "a", "y", " ", "a", "d", "d", " ">>,
      <<"p", "l", "e", "a", "s", "e", " ", "a", "d", "d", " ">>,
      <<"c", "a", "n", " ", "y", "o", "u", " ", "a", "d", "d", " ">> }

TaskTexts ==
    { <<"b", "u", "y", " ", "m", "i", "l", "k">>,
      <<"b", "u", "y", " ", "m", "i", "l", "k", " ", "h", "i", "g", "h", " ",
          "p", "r", "i", "o", "r", "i", "t", "y">>,
      <<"u", "r", "g", "e", "n", "t", " ", "c", "a", "l", "l", " ", "m", "o",
          "m">>,
      <<"i", "m", "p", "o", "r", "t", "a", "n", "t", " ", "m", "e", "e", "t",
          "i", "n", "g">>,
      <<"w", "a", "l", "k", " ", "d", "o", "g", " ", "m", "e", "d", "i", "u",
          "m", " ", "p", "r", "i", "o", "r", "i", "t", "y">>,
      <<"n", "o", "r", "m", "a", "l", " ", "c", "h", "o", "r", "e", "s">>,
      <<"p", "a", "y", " ", "r", "e", "n", "t", " ", "l", "o", "w", " ", "p",
          "r", "i", "o", "r", "i", "t", "y">>,
      <<"b", "u", "y", " ", "m", "i", "l", "k", " ", "u", "r", "g", "e", "n",
          "t", " ", "n", "o", "r", "m", "a", "l">>,
      <<"g", "e", "t", " ", "h", "e", "l", "p">>,
      <<"u", "r", "g", "e", "n", "t">>,
      <<"s", "t", "a", "t", "u", "s", " ", "r", "e", "p", "o", "r", "t">> }

AddPhrases == { lead \o text : lead \in AddLeads, text \in TaskTexts }

TextBanana == <<"b", "a", "n", "a", "n", "a">>

OtherPhrases ==
    { <<"b", "a", "n", "a", "n", "a">>, <<" ", "B", "a", "n", "a", "n", "a", " ">>,
      <<"h", "m">>, <<"h", "e", "l", "p", " ", "m", "e">>,
      <<"s", "h", "o", "w", " ", "a", "l", "l">>,
      <<"w", "h", "a", "t", " ", "c", "a", "n", " ", "y", "o", "u", " ", "d",
          "o">>,
      <<"d", "e", "l", "e", "t", "e", " ", "l", "a", "u", "n", "d", "r", "y">>,
      <<"c", "o", "m", "p", "l", "e", "t", "e", " ", "m", "i", "l", "k">>,
      <<"f", "i", "n", "i", "s", "h", " ", "b", "u", "y">>,
      <<"c", "a", "n", "c", "e", "l", " ", "M", "O", "M">>,
      <<"r", "e", "m", "o", "v", "e", " ", "r", "e", "n", "t">> }

Transcripts ==
    TaskPhrases \cup NumberPhrases \cup ClearPhrases \cup AddPhrases \cup OtherPhrases

\* A session has heard one of the transcripts, with one of the task lists.
InitCommands ==
    /\ input \in Transcripts
    /\ \E s \in Stocked : Holds(Heard(s, input))
    /\ budget = [starts |-> 0, outcomes |-> 0]
    /\ session = NoSession
    /\ handed = [NothingHanded EXCEPT !.pending = "final"]

NextCommands == RunEffects

SpecCommands == InitCommands /\ [][NextCommands]_vars

\* ================================================================= properties

\* C1: within one session (from a startListening that starts the recognizer
\* until the next one) a no-speech error schedules an automatic restart at
\* most twice, whatever onstart and onerror events arrive, the onstart of
\* each restart included.
C1_AtMostTwoRestarts == session.retries <= MaxRetries

\* A recognizer that startListening or a retry has started and that has not
\* ended, or a retry that waits for its 1 s delay.
SessionActive == recognition # "idle" \/ retryTimers > 0

\* C2: a call of startListening while a session is active (before onstart
\* and during the wait before a retry included) is a no-op: it starts no
\* recognizer and leaves transcript, confidence, error, retry count and
\* analytics as they are.
C2_StartWhileActiveIsNoOp ==
    [][ (budget'.starts = budget.starts - 1 /\ SessionActive)
            => UNCHANGED <<recognition, transcript, confidence, error, retryCount,
                           analytics>> ]_vars

\* C3: every value the adaptation rule of updateAnalytics gives the dynamic
\* confidence threshold, after any sequence of successes of confidence in
\* [0, 1] and failures, lies within [0.3, 0.7].
C3_AdaptationWithinBand ==
    [][ (analytics'.totalAttempts = analytics.totalAttempts + 1
         /\ dynamicConfidenceThreshold' # dynamicConfidenceThreshold)
            => (dynamicConfidenceThreshold' >= 3 * Tenth
                /\ dynamicConfidenceThreshold' <= 7 * Tenth) ]_vars

\* C4: the dynamic confidence threshold always lies within [0.1, 1.0]:
\* adjustConfidenceThreshold(t) stores t clamped to that range for every t,
\* below, inside or above it, and no sequence of adjustments and recorded
\* outcomes of confidence in [0, 1] takes the threshold outside.
C4_ThresholdWithinRange ==
    /\ dynamicConfidenceThreshold >= Tenth
    /\ dynamicConfidenceThreshold <= One
    /\ \A t \in ThresholdRange :
        adjustConfidenceThreshold(Program, t).dynamicConfidenceThreshold
            = (IF t < Tenth THEN Tenth ELSE IF t > One THEN One ELSE t)

\* An adjustment above the range, after an outcome, has left the threshold at 1.0.
C4_Witness ==
    /\ budget.outcomes < MaxOutcomes
    /\ dynamicConfidenceThreshold = One

\* C5: a transcript is given to parseVoiceCommand and executeVoiceCommand only
\* when its confidence is above the dynamic confidence threshold of that
\* moment, the threshold being the one the last adaptation or adjustment left.
C5_AcceptedAboveThreshold ==
    handed.text # EmptyText => handed.confidence > handed.threshold

\* The session has ended: its recognizer and the ones it replaced have
\* delivered their end, and no retry is waiting.
SessionOver ==
    /\ session.open
    /\ ~isListening
    /\ recognition = "idle"
    /\ detached = [aborting |-> 0, closing |-> 0]
    /\ retryTimers = 0

\* C6: a session records exactly one outcome: when it is over, totalAttempts
\* is one more than when it began, whether it ended by a final result, an
\* error, exhausted retries, the timeout or the user's stop.
C6_OneOutcomePerSession ==
    SessionOver => analytics.totalAttempts = session.attemptsAtStart + 1

\* C7: only the first terminal event of a session (a final result, an error
\* that schedules no retry, the timeout) has an effect: a later one changes
\* neither transcript, confidence, error, analytics nor the task list.
C7_FirstTerminalEventOnly ==
    [][ (session.terminals >= 1 /\ session'.terminals = session.terminals + 1)
            => UNCHANGED <<transcript, confidence, error, analytics, todos>> ]_vars

\* C8: when the user calls stopListening no timer of the session stays
\* pending, neither the 10 s timeout nor the 1 s retry delay, so that none can
\* fire later and restart the recognizer or overwrite the error.
C8_StopLeavesNoTimer ==
    [][ (session.open /\ ~session.stopped /\ session'.stopped)
            => (retryTimers' = 0 /\ timeoutRef' # "armed") ]_vars

\* C9: a session that is listening when its 10 s timer expires ends failed
\* by timeout: once it no longer listens the error shown is the timeout
\* message, and no transcript of it is interpreted as a command.
C9_TimeoutFailsSession ==
    /\ (session.timedOut /\ ~isListening) => error = MsgTimeout
    /\ ~handed.timedOut

\* The recognizer in recognitionRef, or one the setup effect has aborted, can
\* deliver an error.
ErrorDeliverable ==
    recognition \in {"starting", "active", "stopping"} \/ detached.aborting > 0

\* The message shown for each kind of error other than no-speech.
ExpectedMessage(kind) ==
    CASE kind = "audio-capture" ->
            "Microphone access denied. Please allow microphone access and refresh the page."
      [] kind = "not-allowed" ->
            "Microphone access not allowed. Please check browser settings and allow microphone access."
      [] kind = "network" ->
            "Network error. Please check your connection and try again."
      [] kind = "service-not-allowed" ->
            "Speech recognition service not available. Please try again later."
      [] OTHER -> "Speech recognition error: <errorType>. Please try again."

ContainsKeyword(text) ==
    \E word \in { <<"a", "d", "d">>, <<"c", "r", "e", "a", "t", "e">>, <<"n", "e", "w">>,
                  <<"t", "o", "d", "o">>, <<"c", "o", "m", "p", "l", "e", "t", "e">>,
                  <<"d", "o", "n", "e">>, <<"d", "e", "l", "e", "t", "e">>,
                  <<"r", "e", "m", "o", "v", "e">>, <<"c", "l", "e", "a", "r">> } :
        \E i \in 1..Len(text) :
            /\ i + Len(word) - 1 <= Len(text)
            /\ \A k \in 1..Len(word) : toLowerCase(<<text[i + k - 1]>>) = <<word[k]>>

Counted(c) == IF c = Undefined THEN 0 ELSE c

RECURSIVE ReferenceBest(_, _, _)
ReferenceBest(list, i, best) ==
    IF i > Len(list) THEN best
    ELSE IF \/ Counted(list[i].confidence) > Counted(list[best].confidence)
            \/ /\ 10 * Counted(list[i].confidence) >= 9 * Counted(list[best].confidence)
               /\ ContainsKeyword(list[i].transcript)
    THEN ReferenceBest(list, i + 1, i)
    ELSE ReferenceBest(list, i + 1, best)

\* C11: for every list of alternatives the transcript and the confidence
\* onresult shows are those of the alternative the reference rule selects.
C11_SelectsByReferenceRule ==
    transcript # EmptyText =>
        /\ transcript = input[ReferenceBest(input, 1, 1)].transcript
        /\ confidence = Counted(input[ReferenceBest(input, 1, 1)].confidence)

\* A later alternative of lower confidence has replaced the first by its keyword.
C11_Witness ==
    /\ input = <<Alternative(TextHm, One), Alternative(TextClearAll, 9 * Tenth),
                 Alternative(TextHm, 8 * Tenth)>>
    /\ transcript = TextClearAll
    /\ confidence = 9 * Tenth

\* C12: every microphone stream acquired for a session is released once the
\* session has left listening: no state has the session idle and a captured
\* stream open.
SessionIdle == ~isListening /\ recognition = "idle"

C12_StreamsReleasedWhenIdle == SessionIdle => microphone.open = 0

\* C13: at most one audio-capture stream is open in every reachable state; a
\* session that starts while a stream is held acquires no second one.
C13_AtMostOneStream == microphone.open <= 1

\* C14: in every state where no session is listening, a call of stopListening
\* (the effects it forces included) leaves isListening, transcript,
\* confidence, error, retry count, analytics and the threshold as they are,
\* and a second call changes nothing the first has left.
C14_StopWhenIdleIsNoOp ==
    ~isListening =>
        LET once == Settle(stopListening(Program))
        IN  /\ once.isListening = isListening
            /\ once.transcript = transcript
            /\ once.confidence = confidence
            /\ once.error = error
            /\ once.retryCount = retryCount
            /\ once.analytics = analytics
            /\ once.dynamicConfidenceThreshold = dynamicConfidenceThreshold
            /\ stopListening(once) = once

\* stopListening has been called before any session was started.
C14_Witness ==
    /\ session.stopped
    /\ ~session.open
    /\ ~isListening
    /\ recognition = "idle"

\* C15: for every positive n, 'complete task n', 'done with task n' and
\* 'mark task n as done' are interpreted as Complete, and 'delete task n' and
\* 'remove task n' as Delete, with index n - 1 and no target text.
C15_TaskNumberIsIndex ==
    \A n \in 1..MaxNumber :
        /\ input \in {TaskComplete(n), TaskDoneWith(n), TaskMark(n)}
            => parseVoiceCommand(input)
                 = Command("complete", Absent, "undefined", Absent, <<n - 1>>)
        /\ input \in {TaskDelete(n), TaskRemove(n)}
            => parseVoiceCommand(input)
                 = Command("delete", Absent, "undefined", Absent, <<n - 1>>)

\* C16: every transcript whose lower-cased, trimmed text contains 'clear all',
\* 'delete all' or 'remove all' is interpreted as Clear.
C16_ClearPhraseIsClear ==
    IncludesAny(trim(toLowerCase(input)),
                {<<"c", "l", "e", "a", "r", " ", "a", "l", "l">>,
                 <<"d", "e", "l", "e", "t", "e", " ", "a", "l", "l">>,
                 <<"r", "e", "m", "o", "v", "e", " ", "a", "l", "l">>})
        => parseVoiceCommand(input).action = "clear"

\* The transcript matches no Add, Complete, Delete or Clear pattern.
Unmatched(heard) ==
    LET text == trim(toLowerCase(heard))
    IN  /\ FirstCapture(text, addPatterns) = <<>>
        /\ FirstCapture(text, completePatterns) = <<>>
        /\ FirstCapture(text, deletePatterns) = <<>>
        /\ ~IncludesAny(text, {<<"c", "l", "e", "a", "r", " ", "a", "l", "l">>,
                               <<"d", "e", "l", "e", "t", "e", " ", "a", "l", "l">>,
                               <<"r", "e", "m", "o", "v", "e", " ", "a", "l", "l">>})

\* C17: the command of every transcript has one of the intents add, complete,
\* delete, clear and unknown, and a transcript that matches no pattern of the
\* first four is unknown and carries the transcript as it was heard.
C17_FiveIntents ==
    /\ parseVoiceCommand(input).action
           \in {"add", "complete", "delete", "clear", "unknown"}
    /\ Unmatched(input)
        => parseVoiceCommand(input)
             = Command("unknown", input, "undefined", Absent, <<>>)

\* The priority the phrases of a task text name.
NamedPriority(taskText) ==
    IF \E phrase \in {<<"u", "r", "g", "e", "n", "t">>,
                      <<"h", "i", "g", "h", " ", "p", "r", "i", "o", "r", "i", "t", "y">>,
                      <<"i", "m", "p", "o", "r", "t", "a", "n", "t">>} : Includes(taskText, phrase)
    THEN "high"
    ELSE IF \E phrase \in {<<"m", "e", "d", "i", "u", "m", " ", "p", "r", "i", "o", "r", "i", "t", "y">>,
                           <<"n", "o", "r", "m", "a", "l">>} : Includes(taskText, phrase)
    THEN "medium"
    ELSE "low"

\* C18: every transcript that matches an Add pattern is interpreted as Add,
\* with the priority its task text names: high for 'urgent', 'high priority'
\* or 'important', else medium for 'medium priority' or 'normal', else low.
C18_AddCarriesPriority ==
    LET taskText == FirstCapture(trim(toLowerCase(input)), addPatterns)
    IN  taskText # <<>>
            => /\ parseVoiceCommand(input).action = "add"
               /\ parseVoiceCommand(input).priority = NamedPriority(taskText[1])

\* The task list with the task at position k completed, and without it.
Completing(k) == [todos EXCEPT ![k].completed = TRUE]
Deleting(k) == SubSeq(todos, 1, k - 1) \o SubSeq(todos, k + 1, Len(todos))

\* The positions of the incomplete tasks up to position k.
IncompleteUpTo(k) == {j \in 1..k : ~todos[j].completed}

\* C19: a Complete or Delete command with index i acts on the i-th (from 0)
\* of the incomplete tasks in list order, completed tasks not counted; when
\* i is negative or not less than the number of incomplete tasks, 'Task not
\* found' is spoken and the task list is unchanged.
C19_IndexAmongIncomplete ==
    \A i \in (0 - MaxNumber)..MaxNumber, action \in {"complete", "delete"} :
        LET done == executeVoiceCommand(
                        Program, Command(action, Absent, "undefined", Absent, <<i>>))
            at == {k \in 1..Len(todos) :
                      ~todos[k].completed /\ Cardinality(IncompleteUpTo(k)) = i + 1}
        IN  IF i >= 0 /\ i < Cardinality(IncompleteUpTo(Len(todos)))
            THEN \E k \in at :
                    done.todos = IF action = "complete" THEN Completing(k)
                                 ELSE Deleting(k)
            ELSE done.todos = todos /\ done.spoken = SaidNotFound

\* 'complete 2' has been obeyed where the first task of the list was
\* completed: the third task, the second incomplete one, is now completed.
C19_Witness ==
    /\ handed.text = TextComplete2
    /\ spoken = SaidCompleted
    /\ Len(todos) = 3
    /\ todos[1].completed
    /\ ~todos[2].completed
    /\ todos[3].completed

TargetTexts ==
    {<<"b", "u", "y">>, <<"B", "U", "Y">>, <<"m", "i", "l", "k">>, <<"M", "o", "m">>,
     <<"m">>, <<"l", "a", "u", "n", "d", "r", "y">>, <<"p", "a", "y", " ", "r", "e", "n", "t">>}

TextDeleteLaundry == <<"d", "e", "l", "e", "t", "e", " ", "l", "a", "u", "n", "d", "r", "y">>

\* C20: a Complete or Delete command with target text and no index acts on
\* the first task in list order whose text contains the target, letter case
\* ignored; when no task contains it, 'Task not found' is spoken and the task
\* list is unchanged.
C20_FirstTaskContainingText ==
    \A target \in TargetTexts, action \in {"complete", "delete"} :
        LET done == executeVoiceCommand(
                        Program, Command(action, target, "undefined", Absent, <<>>))
            hits == {k \in 1..Len(todos) :
                        Includes(toLowerCase(todos[k].text), toLowerCase(target))}
        IN  IF hits # {}
            THEN \E k \in hits :
                    /\ \A j \in hits : k <= j
                    /\ done.todos = IF action = "complete" THEN Completing(k)
                                    ELSE Deleting(k)
            ELSE done.todos = todos /\ done.spoken = SaidNotFound

\* 'delete laundry' has been obeyed where no task names laundry.
C20_Witness ==
    /\ handed.text = TextDeleteLaundry
    /\ spoken = SaidNotFound
    /\ Len(todos) = 4
    /\ transcript = EmptyText

\* C21: executing the Add command of any transcript creates exactly one new
\* incomplete task, whatever its task text, a text of priority or category
\* phrases only included.
C21_AddCreatesOneTask ==
    parseVoiceCommand(input).action = "add"
        => LET done == executeVoiceCommand(Program, parseVoiceCommand(input))
           IN  /\ Len(done.todos) = Len(todos) + 1
               /\ ~done.todos[1].completed
               /\ SubSeq(done.todos, 2, Len(done.todos)) = todos

\* C22: executing a Clear command leaves the task list empty, whatever the
\* list was: of any size, with completed and incomplete tasks.
C22_ClearEmptiesList ==
    executeVoiceCommand(Program, Command("clear", Absent, "undefined", Absent, <<>>)).todos
        = <<>>

\* 'clear all' has been obeyed where the list held four tasks, one of them
\* completed.
C22_Witness ==
    /\ handed.text = TextClearAll
    /\ spoken = SaidCleared
    /\ nextId = 4
    /\ todos = <<>>

\* C23: each recognized transcript is interpreted and executed at most once:
\* the voice-command effect never runs its body unless a result has been
\* delivered since it last did.
C23_ExecutedAtMostOnce == ~handed.repeated

\* A transcript has been executed and reset, and the session is over.
C23_Witness ==
    /\ handed.text = TextClearAll
    /\ handed.pending = "none"
    /\ transcript = EmptyText
    /\ SessionOver

\* C27: only a final result is interpreted: the transcript the voice-command
\* effect interprets and executes is never that of an interim result,
\* however the session ends afterwards.
C27_OnlyFinalInterpreted == handed.text # EmptyText => handed.kind = "final"

\* The last n elements of a list, or all of it.
LastOf(list, n) == SubSeq(list, Max(1, Len(list) - n + 1), Len(list))

\* C24: after any sequence of outcomes successfulRecognitions <= totalAttempts,
\* errorRate = (totalAttempts - successfulRecognitions) / totalAttempts * 100
\* within [0, 100], the confidence window holds at most 10 values, the
\* confidences of the latest successes in the order of their arrival, and
\* averageConfidence is the mean of the window once a success was recorded.
C24_AnalyticsConsistent ==
    /\ analytics.successfulRecognitions <= analytics.totalAttempts
    /\ analytics.totalAttempts > 0
        => /\ analytics.errorRate.den > 0
           /\ analytics.errorRate.num * analytics.totalAttempts
                = (analytics.totalAttempts - analytics.successfulRecognitions) * 100
                    * analytics.errorRate.den
    /\ analytics.errorRate.num >= 0
    /\ analytics.errorRate.num <= 100 * analytics.errorRate.den
    /\ Len(confidenceHistory) <= HistoryCapacity
    /\ confidenceHistory = LastOf(input, HistoryCapacity)
    /\ input # <<>>
        => analytics.averageConfidence * Len(confidenceHistory)
             = SumSeq(confidenceHistory)

\* More than ten successes and a failure have been recorded, and the window
\* has been shifted: it holds ten confidences, not all the same.
C24_Witness ==
    /\ Len(input) > HistoryCapacity
    /\ Len(confidenceHistory) = HistoryCapacity
    /\ analytics.totalAttempts > analytics.successfulRecognitions
    /\ confidenceHistory[1] # confidenceHistory[HistoryCapacity]
    /\ confidenceHistory[HistoryCapacity - 1] # confidenceHistory[HistoryCapacity]

\* C25: recording a failure leaves the threshold, the confidence window and
\* averageConfidence as they are; recording a success sets the threshold by
\* the new average and the error rate as it was before this outcome: to
\* max(0.3, average - 0.2) when average > 0.8 and that rate < 10, to
\* min(0.7, average + 0.1) when average < 0.6 or that rate > 20, and leaves
\* it otherwise.
C25_AdaptsOnSuccessOnly ==
    [][ analytics'.totalAttempts = analytics.totalAttempts + 1
          => IF analytics'.successfulRecognitions = analytics.successfulRecognitions
             THEN /\ UNCHANGED <<dynamicConfidenceThreshold, confidenceHistory>>
                  /\ analytics'.averageConfidence = analytics.averageConfidence
             ELSE LET average == analytics'.averageConfidence
                      before == analytics.errorRate
                  IN  dynamicConfidenceThreshold' =
                        IF average > 8 * Tenth /\ before.num < 10 * before.den
                        THEN Max(3 * Tenth, average - 2 * Tenth)
                        ELSE IF \/ average < 6 * Tenth
                                \/ before.num > 20 * before.den
                        THEN Min(7 * Tenth, average + Tenth)
                        ELSE dynamicConfidenceThreshold ]_vars

\* After a failure, a success of confidence 1.0 has loosened the threshold to
\* 0.7 because of the error rate before it.
C25_Witness ==
    /\ analytics.totalAttempts > analytics.successfulRecognitions
    /\ analytics.lastErrorType = "undefined"
    /\ analytics.averageConfidence = One
    /\ dynamicConfidenceThreshold = 7 * Tenth

\* C26: whenever the session is not listening and the effects of that render
\* have run, no sampling loop of useVoiceActivity is alive and the sample
\* published is the zero sample, however the settling of getUserMedia and
\* the frames interleave with the end of the session.
C26_NoSamplingWhenIdle ==
    (~isListening /\ ~EffectsPending(Program))
        => voiceActivity.loops = 0 /\ voiceActivity.sample = 0

\* The highest confidence among the alternatives of a list.
TopConfidence(list) ==
    CHOOSE c \in {Counted(list[i].confidence) : i \in 1..Len(list)} :
        \A i \in 1..Len(list) : Counted(list[i].confidence) <= c

\* C28: for every list of alternatives the confidence of the alternative
\* onresult selects is at least 0.9 times the highest confidence of the
\* list, and when no alternative contains a keyword the selected one is the
\* first of highest confidence.
C28_WithinTenthOfTop ==
    transcript # EmptyText =>
        /\ 10 * confidence >= 9 * TopConfidence(input)
        /\ (\A i \in 1..Len(input) : ~ContainsKeyword(input[i].transcript))
            => \E i \in 1..Len(input) :
                /\ Counted(input[i].confidence) = TopConfidence(input)
                /\ \A j \in 1..(i - 1) : Counted(input[j].confidence) < TopConfidence(input)
                /\ transcript = input[i].transcript
                /\ confidence = TopConfidence(input)

\* C29: the hook never aborts the recognizer of a session in progress as a
\* side effect of isListening changing: no recognizer is ever left detached
\* from recognitionRef by an abort of the setup effect's cleanup.
C29_NeverAbortedByEffect == detached.aborting = 0

TextFinishBuy == <<"f", "i", "n", "i", "s", "h", " ", "b", "u", "y">>

\* C30: a Complete or Delete command that resolves to a task, by index or by
\* text, changes that task only: Delete removes it and keeps the others in
\* their order, Complete sets its completed flag and leaves every other task
\* and the order as they are, and a task that was completed stays so.
C30_OnlyTargetChanges ==
    \A command \in
        { Command(action, Absent, "undefined", Absent, <<i>>) :
            action \in {"complete", "delete"}, i \in 0..MaxNumber }
        \cup { Command(action, target, "undefined", Absent, <<>>) :
            action \in {"complete", "delete"}, target \in TargetTexts } :
        LET done == executeVoiceCommand(Program, command).todos
            found == Resolve(Program, command)
        IN  found # <<>> =>
                \E k \in 1..Len(todos) :
                    /\ todos[k] = found[1]
                    /\ command.action = "delete" =>
                        /\ Len(done) = Len(todos) - 1
                        /\ \A j \in 1..Len(done) :
                            done[j] = IF j < k THEN todos[j] ELSE todos[j + 1]
                    /\ command.action = "complete" =>
                        /\ Len(done) = Len(todos)
                        /\ done[k].completed
                        /\ \A j \in 1..Len(done) :
                            /\ done[j].id = todos[j].id
                            /\ done[j].text = todos[j].text
                            /\ done[j].priority = todos[j].priority
                            /\ done[j].category = todos[j].category
                            /\ j # k => done[j].completed = todos[j].completed

\* 'finish buy' has been obeyed on four tasks: the first that names 'buy' is
\* completed, the other one is not, and the task completed before stays so.
C30_Witness ==
    /\ handed.text = TextFinishBuy
    /\ spoken = SaidCompleted
    /\ Len(todos) = 4
    /\ todos[1].completed
    /\ ~todos[2].completed
    /\ todos[3].completed
    /\ ~todos[4].completed

====
